---------------------------- MODULE Spec2Model ----------------------------
(***************************************************************************)
(* Caustics pipeline of src/src/refract.h (ParseOBJ, Refract,              *)
(* CalculateIntersections) and its host program src/src/main.cpp.          *)
(*                                                                         *)
(* Numbers.  A C++ double is modelled by the exact rational it denotes, a  *)
(* pair <<n, d>> in lowest terms with d > 0.  The operators below are the  *)
(* exact +, -, *, /, <, sqrt; IEEE rounding is not modelled.  Sqrt returns *)
(* the exact root when numerator and denominator are squares, which is the *)
(* case for every argument the input sets below produce.                   *)
(*                                                                         *)
(* Text.  A std::string is a sequence of one-character strings.            *)
(***************************************************************************)
EXTENDS Integers, Sequences, FiniteSets, TLC

VARIABLES
    pc,             \* position in main() / in the harness
    argv,           \* command-line arguments after argv[0]
    file,           \* the .obj file: [readable, lines]
    eta,            \* the index ratio handed to Refract
    vertices,       \* std::vector<Vector3d> vertices
    normals,        \* std::vector<Vector3d> normals
    refracteds,     \* std::vector<Vector3d> refracteds
    intersections,  \* std::vector<Vector2d> intersections
    planeZ,         \* main's planeZ / the last receiver_plane argument
    warned,         \* the last CalculateIntersections call printed the size warning
    window,         \* <<windowWidth, windowHeight>>
    frame,          \* what the last DrawIntersections call rendered
    ev,             \* the event the main loop handled last, and what its handler did
    called,         \* pipeline / rendering functions invoked so far
    stderr,         \* diagnostics printed so far
    exitCode        \* main's return value

vars == <<pc, argv, file, eta, vertices, normals, refracteds, intersections,
          planeZ, warned, window, frame, ev, called, stderr, exitCode>>

None == "none"

-----------------------------------------------------------------------------
(* Bounds of the model *)

MaxLen == 2        \* longest vertices / normals / refracteds array of the harnesses
MaxLines == 3      \* most lines of an .obj file
MaxSteps == 2      \* most W (or S) presses away from the initial plane distance

-----------------------------------------------------------------------------
(* double arithmetic *)

Abs(x) == IF x < 0 THEN -x ELSE x

Min(a, b) == IF a < b THEN a ELSE b

RECURSIVE GCD(_, _)
GCD(a, b) == IF b = 0 THEN a ELSE GCD(b, a % b)

Rat(n, d) ==
    LET g == GCD(Abs(n), Abs(d))
        s == IF d < 0 THEN -1 ELSE 1
    IN  <<(s * n) \div g, (s * d) \div g>>

Num(n) == <<n, 1>>
Zero == Num(0)
One == Num(1)

Neg(a) == <<-a[1], a[2]>>

Add(a, b) ==
    LET g == GCD(a[2], b[2])
    IN  Rat(a[1] * (b[2] \div g) + b[1] * (a[2] \div g), (a[2] \div g) * b[2])

Sub(a, b) == Add(a, Neg(b))

Mul(a, b) ==
    LET g1 == GCD(Abs(a[1]), b[2])
        g2 == GCD(Abs(b[1]), a[2])
    IN  <<(a[1] \div g1) * (b[1] \div g2), (a[2] \div g2) * (b[2] \div g1)>>

Div(a, b) == Mul(a, IF b[1] > 0 THEN <<b[2], b[1]>> ELSE <<-b[2], -b[1]>>)

Lt(a, b) ==
    LET g == GCD(a[2], b[2])
    IN  a[1] * (b[2] \div g) < b[1] * (a[2] \div g)

Le(a, b) == ~Lt(b, a)

RAbs(a) == <<Abs(a[1]), a[2]>>

RECURSIVE ISqrt(_)
ISqrt(k) ==
    IF k < 2 THEN k
    ELSE LET s == 2 * ISqrt(k \div 4)
         IN  IF (s + 1) * (s + 1) <= k THEN s + 1 ELSE s

Sqrt(a) == Rat(ISqrt(a[1]), ISqrt(a[2]))

(* std::vector::clear *)
NotCleared(out) == out

Cleared(out) == <<>>

(* Eigen::Vector3d / Vector2d *)
VScale(k, v) == [i \in DOMAIN v |-> Mul(k, v[i])]
VSub(u, v) == [i \in DOMAIN u |-> Sub(u[i], v[i])]

-----------------------------------------------------------------------------
(* SplitLine, std::stod, ParseOBJ *)

(* s.find(delimiter, pos_start): first position >= pos_start where          *)
(* delimiter occurs, 0 for npos (positions are 1-based)                    *)
Find(s, delimiter, pos_start) ==
    LET hits == {p \in pos_start..(Len(s) - Len(delimiter) + 1) :
                    SubSeq(s, p, p + Len(delimiter) - 1) = delimiter}
    IN  IF hits = {} THEN 0 ELSE CHOOSE p \in hits : \A q \in hits : p <= q

RECURSIVE SplitFrom(_, _, _, _)
SplitFrom(s, delimiter, pos_start, tokens) ==
    LET pos_end == Find(s, delimiter, pos_start)
    IN  IF pos_end = 0
        THEN Append(tokens, SubSeq(s, pos_start, Len(s)))
        ELSE SplitFrom(s, delimiter, pos_end + Len(delimiter),
                       Append(tokens, SubSeq(s, pos_start, pos_end - 1)))

SplitLine(s, delimiter) == SplitFrom(s, delimiter, 1, <<>>)

(* line.rfind(prefix, 0) == 0 *)
StartsWith(line, prefix) ==
    Len(line) >= Len(prefix) /\ SubSeq(line, 1, Len(prefix)) = prefix

DigitChars == <<"0", "1", "2", "3", "4", "5", "6", "7", "8", "9">>

IsDigit(c) == \E i \in 1..10 : DigitChars[i] = c

DigitVal(c) == (CHOOSE i \in 1..10 : DigitChars[i] = c) - 1

RECURSIVE Pow10(_)
Pow10(k) == IF k = 0 THEN 1 ELSE 10 * Pow10(k - 1)

RECURSIVE SkipSpace(_, _)
SkipSpace(s, i) == IF i <= Len(s) /\ s[i] = " " THEN SkipSpace(s, i + 1) ELSE i

RECURSIVE ScanDigits(_, _, _, _)
ScanDigits(s, i, n, k) ==
    IF i <= Len(s) /\ IsDigit(s[i])
    THEN ScanDigits(s, i + 1, 10 * n + DigitVal(s[i]), k + 1)
    ELSE [i |-> i, n |-> n, k |-> k]

(* std::stod: skips leading blanks, then converts the longest prefix of    *)
(* the form [+-] digits [. digits] with at least one digit and ignores the *)
(* rest; ok = FALSE is std::invalid_argument (nothing converted).          *)
(* Exponents, hex, inf and nan need characters no modelled text holds.     *)
Stod(str) ==
    LET i0 == SkipSpace(str, 1)
        signed == i0 <= Len(str) /\ str[i0] \in {"-", "+"}
        ip == ScanDigits(str, IF signed THEN i0 + 1 ELSE i0, 0, 0)
        fp == IF ip.i <= Len(str) /\ str[ip.i] = "."
              THEN ScanDigits(str, ip.i + 1, ip.n, 0)
              ELSE [i |-> ip.i, n |-> ip.n, k |-> 0]
        mag == Rat(fp.n, Pow10(fp.k))
    IN  [ok  |-> ip.k + fp.k > 0,
         val |-> IF signed /\ str[i0] = "-" THEN Neg(mag) ELSE mag]

(* One getline iteration after another.  threw = TRUE: a std::stod call    *)
(* threw; the exception leaves ParseOBJ with what was stored so far.       *)
RECURSIVE ParseLines(_, _, _, _)
ParseLines(lines, i, vs, ns) ==
    IF i > Len(lines) THEN [vertices |-> vs, normals |-> ns, threw |-> FALSE]
    ELSE
      LET line == lines[i]
          lineContents == SplitLine(line, <<" ">>)
          x == Stod(lineContents[2])
          y == Stod(lineContents[3])
          z == Stod(lineContents[4])
          isV == StartsWith(line, <<"v", " ">>)
          isVN == StartsWith(line, <<"v", "n">>)
      IN  IF Len(line) < 2 THEN ParseLines(lines, i + 1, vs, ns)
          ELSE IF isV \/ isVN
          THEN IF Len(lineContents) < 4 THEN ParseLines(lines, i + 1, vs, ns)
               ELSE IF ~(x.ok /\ y.ok /\ z.ok)
               THEN [vertices |-> vs, normals |-> ns, threw |-> TRUE]
               ELSE IF isV
               THEN ParseLines(lines, i + 1, Append(vs, <<x.val, y.val, z.val>>), ns)
               ELSE ParseLines(lines, i + 1, vs, Append(ns, <<x.val, y.val, z.val>>))
          ELSE ParseLines(lines, i + 1, vs, ns)

CouldNotOpen == "Could not open OBJ file"
WarnNoGeometry == "Warning: OBJ parsing found no vertices or normals"

(* main passes the addresses of its own vectors: the null-pointer throws   *)
(* of the three functions cannot happen and are left out.                  *)
ParseOBJ(f, vs, ns) ==
    IF ~f.readable
    THEN [vertices |-> vs, normals |-> ns, threw |-> FALSE, err |-> {CouldNotOpen}]
    ELSE LET r == ParseLines(f.lines, 1, vs, ns)
         IN  [vertices |-> r.vertices, normals |-> r.normals, threw |-> r.threw,
              err |-> IF ~r.threw /\ (r.vertices = <<>> \/ r.normals = <<>>)
                      THEN {WarnNoGeometry} ELSE {}]

-----------------------------------------------------------------------------
(* Refract *)

incident == <<Zero, Zero, One>>

TIR == <<Rat(9999, 10000), Zero, Rat(141418, 10000000)>>

Sin2RefractedAngle(N, e) == Mul(Mul(e, e), Sub(One, Mul(N[3], N[3])))

RefractOne(N, e) ==
    LET cosIncidenceAngle == N[3]
        sin2RefractedAngle == Sin2RefractedAngle(N, e)
    IN  IF Le(sin2RefractedAngle, One)
        THEN LET sqrtTerm == Sqrt(Sub(One, sin2RefractedAngle))
             IN  VSub(VScale(e, incident),
                      VScale(Sub(Mul(e, cosIncidenceAngle), sqrtTerm), N))
        ELSE TIR

RECURSIVE RefractLoop(_, _, _, _)
RefractLoop(ns, out, e, i) ==
    IF i > Len(ns) THEN out
    ELSE RefractLoop(ns, Append(out, RefractOne(ns[i], e)), e, i + 1)

Refract(ns, out, e) == RefractLoop(ns, Cleared(out), e, 1)

-----------------------------------------------------------------------------
(* CalculateIntersections *)

Epsilon == Rat(1, 1000000000)

Sentinel == <<Num(-9999), Num(-9999)>>

Half == Num(128)

Degenerate(denom) == Lt(RAbs(denom), Epsilon)

IntersectPointAlongZ(v, r, receiver_plane) ==
    LET denom == r[3]
        t == Div(Sub(receiver_plane, v[3]), denom)
        ix == Add(v[1], Mul(r[3], t))
        iy == Add(v[2], Mul(r[2], t))
    IN  <<Add(Mul(ix, Half), Half), Add(Mul(iy, Half), Half)>>

IntersectPoint(v, r, receiver_plane) ==
    LET denom == r[3]
        t == Div(Sub(receiver_plane, v[3]), denom)
        ix == Add(v[1], Mul(r[1], t))
        iy == Add(v[2], Mul(r[2], t))
    IN  <<Add(Mul(ix, Half), Half), Add(Mul(iy, Half), Half)>>

SkipFallback(out) == out

PushFallback(out) == Append(out, Sentinel)

SizeMismatchLonger(vs, rs) == Len(vs) > Len(rs)

SizeMismatch(vs, rs) == Len(vs) # Len(rs)

RECURSIVE IntersectLoop(_, _, _, _, _, _)
IntersectLoop(vs, rs, out, receiver_plane, i, nPoints) ==
    IF i > nPoints THEN out
    ELSE IF Degenerate(rs[i][3])
         THEN IntersectLoop(vs, rs, PushFallback(out), receiver_plane, i + 1, nPoints)
         ELSE IntersectLoop(vs, rs,
                            Append(out, IntersectPoint(vs[i], rs[i], receiver_plane)),
                            receiver_plane, i + 1, nPoints)

CalculateIntersections(vs, rs, out, receiver_plane) ==
    [out    |-> IntersectLoop(vs, rs, Cleared(out), receiver_plane, 1,
                              Min(Len(vs), Len(rs))),
     warned |-> SizeMismatch(vs, rs)]

-----------------------------------------------------------------------------
(* Inputs of the harnesses *)

SeqsUpTo(S, n) == UNION {[1..k -> S] : k \in 0..n}

V3(a, b, c) == <<a, b, c>>

VertexSet == {V3(Zero, Zero, Zero), V3(Rat(1, 2), Num(-1), One)}

(* z = 0, 0 < |z| < 1e-9 of either sign, z = 1e-9, the TIR substitute,    *)
(* and two ordinary directions                                             *)
DirSet ==
    {V3(One, Zero, Zero),
     V3(One, Zero, Rat(1, 2000000000)),
     V3(Zero, One, Rat(-1, 2000000000)),
     V3(Zero, Zero, Epsilon),
     TIR,
     V3(Rat(-457, 1000), Zero, One),
     incident}

PlaneSet == {Zero, Rat(1, 10), One, Rat(-1, 2)}

PriorSet == {<<>>, <<Sentinel>>, <<<<Zero, Zero>>, <<Half, Half>>>>}

NormalSet ==
    {V3(Zero, Zero, One), V3(Zero, Zero, Num(-1)),
     V3(Rat(4, 5), Zero, Rat(3, 5)), V3(Rat(4, 5), Zero, Rat(-3, 5)),
     V3(One, Zero, Zero), V3(One, Zero, One)}

DEFAULT_ETA == Rat(1457, 1000)

EtaSet == {One, DEFAULT_ETA}

NoEvent ==
    [type |-> None, calcCalls |-> 0, calcPlane |-> None, drawCalls |-> 0,
     before |-> <<>>]

(* what a harness leaves untouched *)
HostIdle ==
    /\ argv = <<>>
    /\ file = [readable |-> FALSE, lines |-> <<>>]
    /\ window = <<256, 256>>
    /\ frame = None
    /\ ev = NoEvent
    /\ stderr = {}
    /\ exitCode = None

-----------------------------------------------------------------------------
(* main.cpp: inputs *)

L_V0 == <<"v", " ", "0", " ", "0", " ", "0">>                        \* v 0 0 0
L_V1 == <<"v", " ", "0", ".", "5", " ", "-", "1", " ", "1">>         \* v 0.5 -1 1
L_VN0 == <<"v", "n", " ", "0", " ", "0", " ", "1">>                  \* vn 0 0 1
L_VN1 == <<"v", "n", " ", "1", " ", "0", " ", "1">>                  \* vn 1 0 1
L_VGAP == <<"v", " ", "0", " ", " ", "0", " ", "0">>                 \* v 0  0 0
L_VSHORT == <<"v", " ", "0", " ", "0">>                              \* v 0 0
L_VT == <<"v", "t", " ", "0", " ", "0">>                             \* vt 0 0
L_VNBAD == <<"v", "n", " ", "x", " ", "0", " ", "1">>                \* vn x 0 1

LineSet == {L_V0, L_V1, L_VN0, L_VN1, L_VGAP, L_VSHORT, L_VT, L_VNBAD}

FileSet ==
    {[readable |-> FALSE, lines |-> <<>>]}
    \cup {[readable |-> TRUE, lines |-> ls] : ls \in SeqsUpTo(LineSet, MaxLines)}

(* argv[1..]: the path, then the distance "5.0", or a distance that is no  *)
(* number, or no distance at all                                           *)
ArgvSet ==
    {<<"lens.obj">>,
     <<"lens.obj", <<"5", ".", "0">>>>,
     <<"lens.obj", <<"x">>>>}

WindowSizes == {256, 512}

-----------------------------------------------------------------------------
(* main.cpp: DrawIntersections and the steps of main *)

DrawIntersections(pts, win) ==
    LET scaleX == Rat(win[1], 256)
        scaleY == Rat(win[2], 256)
    IN  [src    |-> pts,
         points |-> [i \in 1..Len(pts) |->
                        <<Mul(pts[i][1], scaleX), Mul(pts[i][2], scaleY)>>]]

Step == Rat(1, 10)

ReceiverPlaneZ == Stod(argv[2]).val

WarnMismatch == "Warning: Mismatch in size of vertices and refracteds"

(* The part of the state a handler works on, with counts of the calls it   *)
(* makes.                                                                  *)
Handler ==
    [planeZ |-> planeZ, intersections |-> intersections, warned |-> warned,
     window |-> window, frame |-> frame, stderr |-> stderr,
     calcCalls |-> 0, calcPlane |-> None, drawCalls |-> 0]

CallCalculate(h) ==
    LET r == CalculateIntersections(vertices, refracteds, h.intersections, h.planeZ)
    IN  [h EXCEPT !.intersections = r.out,
                  !.warned = r.warned,
                  !.stderr = IF r.warned THEN @ \cup {WarnMismatch} ELSE @,
                  !.calcCalls = @ + 1,
                  !.calcPlane = h.planeZ]

CallDraw(h) ==
    [h EXCEPT !.frame = DrawIntersections(h.intersections, h.window),
              !.drawCalls = @ + 1]

Commit(h, type) ==
    /\ planeZ' = h.planeZ
    /\ intersections' = h.intersections
    /\ warned' = h.warned
    /\ window' = h.window
    /\ frame' = h.frame
    /\ stderr' = h.stderr
    /\ ev' = [type |-> type, calcCalls |-> h.calcCalls, calcPlane |-> h.calcPlane,
              drawCalls |-> h.drawCalls, before |-> intersections]
    /\ called' = called
                 \cup (IF h.calcCalls > 0 THEN {"CalculateIntersections"} ELSE {})
                 \cup (IF h.drawCalls > 0 THEN {"DrawIntersections"} ELSE {})

Geometry == <<vertices, normals, refracteds>>

Init ==
    /\ pc = "args"
    /\ argv \in ArgvSet
    /\ file \in FileSet
    /\ eta = DEFAULT_ETA
    /\ vertices = <<>>
    /\ normals = <<>>
    /\ refracteds = <<>>
    /\ intersections = <<>>
    /\ planeZ = None
    /\ warned = FALSE
    /\ window = <<256, 256>>
    /\ frame = None
    /\ ev = NoEvent
    /\ called = {}
    /\ stderr = {}
    /\ exitCode = None

(* main.cpp 57-68 *)
ParseArgs ==
    /\ pc = "args"
    /\ IF Len(argv) + 1 < 3
       THEN /\ stderr' = stderr \cup {"Usage"}
            /\ exitCode' = 1
            /\ pc' = "exit"
            /\ UNCHANGED planeZ
       ELSE IF ~Stod(argv[2]).ok
       THEN /\ exitCode' = "terminate"     \* std::invalid_argument, uncaught
            /\ pc' = "exit"
            /\ UNCHANGED <<planeZ, stderr>>
       ELSE /\ planeZ' = ReceiverPlaneZ
            /\ pc' = "parse"
            /\ UNCHANGED <<stderr, exitCode>>
    /\ UNCHANGED <<argv, file, eta, Geometry, intersections, warned, window,
                   frame, ev, called>>

(* main.cpp 76-83 *)
LoadGeometry ==
    /\ pc = "parse"
    /\ LET r == ParseOBJ(file, vertices, normals)
       IN  /\ vertices' = r.vertices
           /\ normals' = r.normals
           /\ IF r.threw
              THEN /\ stderr' = stderr \cup r.err \cup {"Error parsing OBJ"}
                   /\ exitCode' = 2
                   /\ pc' = "exit"
              ELSE /\ stderr' = stderr \cup r.err
                   /\ pc' = "check"
                   /\ UNCHANGED exitCode
    /\ called' = called \cup {"ParseOBJ"}
    /\ UNCHANGED <<argv, file, eta, refracteds, intersections, planeZ, warned,
                   window, frame, ev>>

NothingLoadedBoth(vs, ns) == vs = <<>> /\ ns = <<>>

NothingLoaded(vs, ns) == vs = <<>> \/ ns = <<>>

(* main.cpp 85-88 *)
CheckGeometry ==
    /\ pc = "check"
    /\ IF NothingLoaded(vertices, normals)
       THEN /\ stderr' = stderr \cup {"No vertices or normals found. Exiting."}
            /\ exitCode' = 2
            /\ pc' = "exit"
       ELSE /\ pc' = "refract"
            /\ UNCHANGED <<stderr, exitCode>>
    /\ UNCHANGED <<argv, file, eta, Geometry, intersections, planeZ, warned,
                   window, frame, ev, called>>

(* main.cpp 90-97 *)
ComputeRefractions ==
    /\ pc = "refract"
    /\ refracteds' = Refract(normals, refracteds, eta)
    /\ called' = called \cup {"Refract"}
    /\ pc' = "sdl"
    /\ UNCHANGED <<argv, file, eta, vertices, normals, intersections, planeZ,
                   warned, window, frame, ev, stderr, exitCode>>

(* main.cpp 99-127: SDL_Init, SDL_CreateWindow, SDL_CreateRenderer *)
InitSDL ==
    /\ pc = "sdl"
    /\ \E failure \in {0, 4, 5, 6} :
         IF failure = 0
         THEN /\ pc' = "first"
              /\ UNCHANGED <<stderr, exitCode>>
         ELSE /\ stderr' = stderr \cup {"SDL Error"}
              /\ exitCode' = failure
              /\ pc' = "exit"
    /\ UNCHANGED <<argv, file, eta, Geometry, intersections, planeZ, warned,
                   window, frame, ev, called>>

(* main.cpp 129-131 *)
FirstFrame ==
    /\ pc = "first"
    /\ Commit(CallDraw(CallCalculate(Handler)), "Startup")
    /\ pc' = "loop"
    /\ UNCHANGED <<argv, file, eta, Geometry, exitCode>>

(* main.cpp 139-141 *)
QuitEvent ==
    /\ pc = "loop"
    /\ pc' = "cleanup"
    /\ UNCHANGED <<argv, file, eta, Geometry, intersections, planeZ, warned,
                   window, frame, ev, called, stderr, exitCode>>

(* main.cpp 143-151, e.window.event == SDL_WINDOWEVENT_RESIZED *)
Resized(w, h) ==
    /\ pc = "loop"
    /\ Commit(CallDraw([Handler EXCEPT !.window = <<w, h>>]), "Resize")
    /\ UNCHANGED <<pc, argv, file, eta, Geometry, exitCode>>

KeyW_DrawStale ==
    /\ pc = "loop"
    /\ Lt(planeZ, Add(ReceiverPlaneZ, Mul(Num(MaxSteps), Step)))
    /\ Commit(CallCalculate(CallDraw([Handler EXCEPT !.planeZ = Add(@, Step)])), "W")
    /\ UNCHANGED <<pc, argv, file, eta, Geometry, exitCode>>

(* main.cpp 155-160 *)
KeyW ==
    /\ pc = "loop"
    /\ Lt(planeZ, Add(ReceiverPlaneZ, Mul(Num(MaxSteps), Step)))
    /\ Commit(CallDraw(CallCalculate([Handler EXCEPT !.planeZ = Add(@, Step)])), "W")
    /\ UNCHANGED <<pc, argv, file, eta, Geometry, exitCode>>

KeyS_NoRecalc ==
    /\ pc = "loop"
    /\ Lt(Sub(ReceiverPlaneZ, Mul(Num(MaxSteps), Step)), planeZ)
    /\ Commit(CallDraw([Handler EXCEPT !.planeZ = Sub(@, Step)]), "S")
    /\ UNCHANGED <<pc, argv, file, eta, Geometry, exitCode>>

(* main.cpp 161-166 *)
KeyS ==
    /\ pc = "loop"
    /\ Lt(Sub(ReceiverPlaneZ, Mul(Num(MaxSteps), Step)), planeZ)
    /\ Commit(CallDraw(CallCalculate([Handler EXCEPT !.planeZ = Sub(@, Step)])), "S")
    /\ UNCHANGED <<pc, argv, file, eta, Geometry, exitCode>>

(* main.cpp 167-169 *)
KeyQ ==
    /\ pc = "loop"
    /\ Commit(Handler, "Q")
    /\ UNCHANGED <<pc, argv, file, eta, Geometry, exitCode>>

(* main.cpp 170-172 *)
KeyEscape ==
    /\ pc = "loop"
    /\ pc' = "cleanup"
    /\ UNCHANGED <<argv, file, eta, Geometry, intersections, planeZ, warned,
                   window, frame, ev, called, stderr, exitCode>>

(* main.cpp 143-151 (a window event that is no resize), 173-174, 178-179 *)
OtherEvent ==
    /\ pc = "loop"
    /\ Commit(Handler, "Other")
    /\ UNCHANGED <<pc, argv, file, eta, Geometry, exitCode>>

(* main.cpp 187-191 *)
Cleanup ==
    /\ pc = "cleanup"
    /\ exitCode' = 0
    /\ pc' = "exit"
    /\ UNCHANGED <<argv, file, eta, Geometry, intersections, planeZ, warned,
                   window, frame, ev, called, stderr>>

Next ==
    \/ ParseArgs
    \/ LoadGeometry
    \/ CheckGeometry
    \/ ComputeRefractions
    \/ InitSDL
    \/ FirstFrame
    \/ QuitEvent
    \/ \E w \in WindowSizes, h \in WindowSizes : Resized(w, h)
    \/ KeyW
    \/ KeyS
    \/ KeyQ
    \/ KeyEscape
    \/ OtherEvent
    \/ Cleanup

Spec == Init /\ [][Next]_vars

-----------------------------------------------------------------------------
(* Claims about main *)

(* the fields a position / normal record needs all convert *)
WellFormed(line) ==
    LET c == SplitLine(line, <<" ">>)
    IN  Len(c) >= 4 /\ \A k \in 2..4 : Stod(c[k]).ok

RECURSIVE Records(_, _)
Records(lines, prefix) ==
    IF lines = <<>> THEN <<>>
    ELSE LET line == Head(lines)
             c == SplitLine(line, <<" ">>)
         IN  (IF StartsWith(line, prefix) /\ WellFormed(line)
              THEN <<<<Stod(c[2]).val, Stod(c[3]).val, Stod(c[4]).val>>>>
              ELSE <<>>) \o Records(Tail(lines), prefix)

(* C3: a v / vn record whose fields do not convert (empty tokens from two  *)
(* consecutive blanks included) is skipped alone: once ParseOBJ has run on *)
(* a readable file, vertices and normals hold every well-formed record in  *)
(* file order and the run was not ended by a parse error.                  *)
C3_MalformedRecordSkipped ==
    ("ParseOBJ" \in called /\ file.readable) =>
        /\ vertices = Records(file.lines, <<"v", " ">>)
        /\ normals = Records(file.lines, <<"v", "n">>)
        /\ "Error parsing OBJ" \notin stderr

(* C4: an unreadable source leaves positions and normals empty; with an    *)
(* unreadable source, zero positions or zero normals the run never gets    *)
(* past the emptiness check: it ends with exit code 2 and a diagnostic,    *)
(* and neither Refract nor CalculateIntersections nor DrawIntersections    *)
(* has been invoked.                                                       *)
C4_EmptyGeometryIsFatal ==
    ("ParseOBJ" \in called
     /\ (~file.readable \/ vertices = <<>> \/ normals = <<>>)) =>
        /\ ~file.readable => (vertices = <<>> /\ normals = <<>>
                              /\ "Could not open OBJ file" \in stderr)
        /\ pc \in {"check", "exit"}
        /\ pc = "exit" =>
             /\ exitCode = 2
             /\ \/ "No vertices or normals found. Exiting." \in stderr
                \/ "Error parsing OBJ" \in stderr
        /\ called = {"ParseOBJ"}
        /\ refracteds = <<>>
        /\ intersections = <<>>
        /\ frame = None

C4_Witness ==
    /\ pc = "exit"
    /\ file.readable
    /\ vertices # <<>>
    /\ normals = <<>>
    /\ exitCode = 2
    /\ "No vertices or normals found. Exiting." \in stderr

C5_Handled ==
    (pc = "loop" /\ pc' = "loop") =>
        /\ ev'.type = "W" =>
             /\ planeZ' = Add(planeZ, Rat(1, 10))
             /\ ev'.calcCalls = 1
             /\ ev'.calcPlane = planeZ'
        /\ ev'.type = "S" =>
             /\ planeZ' = Sub(planeZ, Rat(1, 10))
             /\ ev'.calcCalls = 1
             /\ ev'.calcPlane = planeZ'
        /\ ev'.type \in {"Q", "Resize"} =>
             /\ planeZ' = planeZ
             /\ intersections' = intersections
             /\ ev'.calcCalls = 0

(* C5: in the event loop, handling key W (S) changes planeZ by exactly     *)
(* +0.1 (-0.1) and makes exactly one CalculateIntersections call, with the *)
(* updated planeZ; handling key Q or a window resize changes neither       *)
(* planeZ nor the intersections array and makes no CalculateIntersections  *)
(* call.                                                                   *)
C5_KeysRecalculateOnce == [][C5_Handled]_vars

C5_Witness ==
    /\ pc = "loop"
    /\ ev.type = "S"
    /\ ev.calcCalls = 1
    /\ planeZ = Rat(49, 10)
    /\ ev.calcPlane = planeZ
    /\ intersections # ev.before

(* the end-to-end scenario: one position (0,0,0), one normal (0,0,1),      *)
(* eta = 1.457, started at 5.0, and W has just moved the plane to 5.1      *)
C6_Scenario ==
    /\ pc = "loop"
    /\ eta = Rat(1457, 1000)
    /\ ev.type = "W"
    /\ planeZ = Rat(51, 10)
    /\ ReceiverPlaneZ = Num(5)
    /\ LET loaded == ParseOBJ(file, <<>>, <<>>)
       IN  /\ loaded.vertices = <<V3(Zero, Zero, Zero)>>
           /\ loaded.normals = <<V3(Zero, Zero, One)>>

(* C6 as stated: in the scenario the point projected for 5.1 differs from  *)
(* the point projected for 5.0, and positions and normals are as loaded.   *)
C6_PointMovesWithPlane ==
    C6_Scenario =>
        /\ intersections # ev.before
        /\ vertices = <<V3(Zero, Zero, Zero)>>
        /\ normals = <<V3(Zero, Zero, One)>>

(* C6 amended: in the scenario the point projected for 5.1 is (128, 128),  *)
(* the same point as was projected for 5.0 (the refracted direction is     *)
(* (0,0,1), so the ray meets every plane at x = y = 0), and positions and  *)
(* normals are as loaded.                                                  *)
C6_PointStaysOnAxis ==
    C6_Scenario =>
        /\ refracteds = <<V3(Zero, Zero, One)>>
        /\ ev.before = CalculateIntersections(vertices, refracteds, <<>>, Num(5)).out
        /\ intersections = <<<<Num(128), Num(128)>>>>
        /\ intersections = ev.before
        /\ vertices = <<V3(Zero, Zero, Zero)>>
        /\ normals = <<V3(Zero, Zero, One)>>

C6_Witness ==
    /\ C6_Scenario
    /\ file.lines = <<L_V0, L_VN0>>
    /\ ev.calcPlane = Rat(51, 10)
    /\ Len(intersections) = 1

(* C10: once the main loop runs, vertices, normals and refracteds are      *)
(* still what startup loaded and computed, the intersections array is the  *)
(* projection of them at the current planeZ (no window size enters it),    *)
(* and the array the last DrawIntersections call was given is that same    *)
(* projection.                                                             *)
C10_DrawnArrayIsCurrentProjection ==
    pc \in {"loop", "cleanup"} =>
        /\ LET loaded == ParseOBJ(file, <<>>, <<>>)
           IN  vertices = loaded.vertices /\ normals = loaded.normals
        /\ refracteds = Refract(normals, <<>>, eta)
        /\ intersections =
               CalculateIntersections(vertices, refracteds, <<>>, planeZ).out
        /\ frame.src = intersections

C10_Witness ==
    /\ pc = "loop"
    /\ ev.type = "Resize"
    /\ window = <<512, 256>>
    /\ planeZ = Rat(52, 10)
    /\ frame.src = intersections
    /\ frame.points # frame.src
    /\ Len(vertices) # Len(normals)

-----------------------------------------------------------------------------
(* SpecCalc: CalculateIntersections called repeatedly on one container *)

InitCalc ==
    /\ HostIdle
    /\ pc = "ready"
    /\ eta = DEFAULT_ETA
    /\ normals = <<>>
    /\ vertices \in SeqsUpTo(VertexSet, MaxLen)
    /\ refracteds \in SeqsUpTo(DirSet, MaxLen)
    /\ intersections \in PriorSet
    /\ planeZ = None
    /\ warned = FALSE
    /\ called = {}

Reproject(p) ==
    /\ pc \in {"ready", "called"}
    /\ LET r == CalculateIntersections(vertices, refracteds, intersections, p)
       IN  /\ intersections' = r.out
           /\ warned' = r.warned
    /\ planeZ' = p
    /\ pc' = "called"
    /\ called' = called \cup {"CalculateIntersections"}
    /\ ev' = [type |-> "Reproject", calcCalls |-> 1, calcPlane |-> p,
               drawCalls |-> 0, before |-> intersections]
    /\ UNCHANGED <<argv, file, eta, vertices, normals, refracteds, window, frame,
                   stderr, exitCode>>

NextCalc == \E p \in PlaneSet : Reproject(p)

SpecCalc == InitCalc /\ [][NextCalc]_vars

OutsideFrame(pt) ==
    \/ Lt(pt[1], Zero) \/ Lt(Num(256), pt[1])
    \/ Lt(pt[2], Zero) \/ Lt(Num(256), pt[2])

(* C1: after a CalculateIntersections call the output has exactly          *)
(* min(len(vertices), len(refracteds)) points, point i is the one computed *)
(* from vertices[i] and refracteds[i] at the plane of the call, and the    *)
(* size warning was printed if and only if the two lengths differ; the     *)
(* call completes either way.                                              *)
C1_MinLengthAndWarning ==
    pc = "called" =>
        LET n == Min(Len(vertices), Len(refracteds))
        IN  /\ Len(intersections) = n
            /\ \A i \in 1..n :
                 intersections[i] =
                     IF Degenerate(refracteds[i][3]) THEN Sentinel
                     ELSE IntersectPoint(vertices[i], refracteds[i], planeZ)
            /\ warned <=> (Len(vertices) # Len(refracteds))

C1_Witness ==
    /\ pc = "called"
    /\ Len(vertices) = 2
    /\ Len(refracteds) = 1
    /\ Len(intersections) = 1
    /\ warned

(* C2: every index below the governing length whose direction has z = 0    *)
(* or |z| < 1e-9 holds the point (-9999, -9999), which is outside          *)
(* [0,256]x[0,256]; no index is skipped, so the output keeps the governing *)
(* length and every other entry j stays at position j.                     *)
C2_SentinelKeepsAlignment ==
    pc = "called" =>
        LET n == Min(Len(vertices), Len(refracteds))
        IN  /\ Len(intersections) = n
            /\ \A i \in 1..n :
                 LET z == refracteds[i][3]
                 IN  IF z = Zero \/ Lt(RAbs(z), Rat(1, 1000000000))
                     THEN /\ intersections[i] = <<Num(-9999), Num(-9999)>>
                          /\ OutsideFrame(intersections[i])
                     ELSE intersections[i] =
                              IntersectPoint(vertices[i], refracteds[i], planeZ)

C2_Witness ==
    /\ pc = "called"
    /\ Len(intersections) = 2
    /\ refracteds[1][3] = Zero
    /\ intersections[1] = Sentinel
    /\ ~Degenerate(refracteds[2][3])
    /\ intersections[2] # Sentinel

(* C9: whatever the container held before and whatever planes earlier      *)
(* calls used, after a call the container holds exactly what one call with *)
(* the last plane distance produces on an empty container.                 *)
C9_FullReplace ==
    pc = "called" =>
        intersections =
            CalculateIntersections(vertices, refracteds, <<>>, planeZ).out

C9_Witness ==
    /\ pc = "called"
    /\ planeZ = One
    /\ ev.before # <<>>
    /\ ev.before # intersections
    /\ ev.before = CalculateIntersections(vertices, refracteds, <<>>, Zero).out

-----------------------------------------------------------------------------
(* SpecPipe: Refract, then CalculateIntersections, on arbitrary geometry *)

InitPipe ==
    /\ HostIdle
    /\ pc = "loaded"
    /\ eta \in EtaSet
    /\ vertices \in SeqsUpTo(VertexSet, MaxLen)
    /\ normals \in SeqsUpTo(NormalSet, MaxLen)
    /\ refracteds \in {<<>>, <<TIR>>}
    /\ intersections = <<>>
    /\ planeZ = None
    /\ warned = FALSE
    /\ called = {}

PipeRefract ==
    /\ pc = "loaded"
    /\ refracteds' = Refract(normals, refracteds, eta)
    /\ pc' = "refracted"
    /\ called' = called \cup {"Refract"}
    /\ UNCHANGED <<argv, file, eta, vertices, normals, intersections, planeZ,
                   warned, window, frame, ev, stderr, exitCode>>

PipeProject(p) ==
    /\ pc \in {"refracted", "projected"}
    /\ LET r == CalculateIntersections(vertices, refracteds, intersections, p)
       IN  /\ intersections' = r.out
           /\ warned' = r.warned
    /\ planeZ' = p
    /\ pc' = "projected"
    /\ called' = called \cup {"CalculateIntersections"}
    /\ ev' = [type |-> "Reproject", calcCalls |-> 1, calcPlane |-> p,
               drawCalls |-> 0, before |-> intersections]
    /\ UNCHANGED <<argv, file, eta, vertices, normals, refracteds, window, frame,
                   stderr, exitCode>>

NextPipe == PipeRefract \/ \E p \in PlaneSet : PipeProject(p)

SpecPipe == InitPipe /\ [][NextPipe]_vars

(* C7: with eta = 1, whatever the normal (negative z included), the        *)
(* direction Refract produces is exactly the incident direction (0,0,1).   *)
C7_EtaOneNoBending ==
    (pc \in {"refracted", "projected"} /\ eta = One) =>
        /\ Len(refracteds) = Len(normals)
        /\ \A i \in 1..Len(refracteds) : refracteds[i] = <<Zero, Zero, One>>

(* C8: every normal with sin2T = eta^2 (1 - N.z^2) > 1 gets the one        *)
(* constant substitute direction, and for every position and plane         *)
(* distance the point projected for it comes from the ordinary branch      *)
(* (not the sentinel) and lies outside [0,256]x[0,256].                    *)
C8_TIRSubstituteOffFrame ==
    pc = "projected" =>
        \A i \in 1..Len(normals) :
            Lt(One, Mul(Mul(eta, eta), Sub(One, Mul(normals[i][3], normals[i][3]))))
            => /\ refracteds[i] = <<Rat(9999, 10000), Zero, Rat(141418, 10000000)>>
               /\ i <= Len(vertices) =>
                    /\ intersections[i] # Sentinel
                    /\ intersections[i] =
                           IntersectPoint(vertices[i], refracteds[i], planeZ)
                    /\ OutsideFrame(intersections[i])

=============================================================================
